---------------------------- MODULE Spec2Model ----------------------------
(***************************************************************************)
(* Model of telegram_support_bot.py: the relay between end-user chats and  *)
(* one operator channel.  Texts are sequences of characters (one-element   *)
(* strings; a non-ASCII glyph is one element named by its code point), so  *)
(* that formatting and the regular-expression searches are computed on     *)
(* the characters, as the program computes them.                           *)
(***************************************************************************)
EXTENDS Integers, Sequences, FiniteSets, TLC

\* ------------------------------------------------------------------------
\* Python values
\* ------------------------------------------------------------------------

\* Optional[T]: None is the empty tuple, a present value x is <<x>>.
None ==
    <<>>

Some(x) ==
    <<x>>

\* the value of a present optional
Val(o) ==
    o[1]

\* Python truthiness of an Optional[str]: None and "" are falsy
TruthyStr(o) ==
    o # <<>> /\ o[1] # <<>>

\* Python truthiness of an Optional[int]: None and 0 are falsy
TruthyInt(o) ==
    o # <<>> /\ o[1] # 0

\* `a or b or ""` on Optional[str] operands, yielding a str
OrStr(a, b) ==
    IF TruthyStr(a) THEN a[1] ELSE IF TruthyStr(b) THEN b[1] ELSE <<>>

DigitChars ==
    <<"0", "1", "2", "3", "4", "5", "6", "7", "8", "9">>

IsDigit(c) ==
    \E d \in 1..10 : DigitChars[d] = c

DigitVal(c) ==
    (CHOOSE d \in 1..10 : DigitChars[d] = c) - 1

RECURSIVE NatStr(_)
\* str(n) for n >= 0: decimal digits, no leading zeros
NatStr(n) ==
    IF n < 10 THEN <<DigitChars[n + 1]>>
    ELSE NatStr(n \div 10) \o <<DigitChars[(n % 10) + 1]>>

\* str(n) / f"{n}" for a Python int
Str(n) ==
    IF n < 0 THEN <<"-">> \o NatStr(0 - n) ELSE NatStr(n)

RECURSIVE ParseInt(_)
\* int(s) for a non-empty string of digits
ParseInt(s) ==
    IF Len(s) = 0 THEN 0
    ELSE 10 * ParseInt(SubSeq(s, 1, Len(s) - 1)) + DigitVal(s[Len(s)])

RECURSIVE Zfill(_, _)
\* zero padding of strftime's numeric fields
Zfill(s, width) ==
    IF Len(s) >= width THEN s ELSE Zfill(<<"0">> \o s, width)

\* datetime.strftime('%Y-%m-%d %H:%M:%S')
Strftime(d) ==
    Zfill(NatStr(d.year), 4) \o <<"-">> \o Zfill(NatStr(d.month), 2) \o <<"-">>
      \o Zfill(NatStr(d.day), 2) \o <<" ">> \o Zfill(NatStr(d.hour), 2) \o <<":">>
      \o Zfill(NatStr(d.minute), 2) \o <<":">> \o Zfill(NatStr(d.second), 2)

\* str.strip(): leading and trailing whitespace removed
RECURSIVE Strip(_)
Strip(s) ==
    IF Len(s) = 0 THEN s
    ELSE IF s[1] \in {" ", "\n"} THEN Strip(Tail(s))
    ELSE IF s[Len(s)] \in {" ", "\n"} THEN Strip(SubSeq(s, 1, Len(s) - 1))
    ELSE s

\* ------------------------------------------------------------------------
\* Regular expressions of the form  <literal>(\d+)
\* ------------------------------------------------------------------------

\* the literal lit occurs in text at position i and a digit follows it
MatchAt(lit, text, i) ==
    /\ text[i] = lit[1]
    /\ i + Len(lit) <= Len(text)
    /\ SubSeq(text, i, i + Len(lit) - 1) = lit
    /\ IsDigit(text[i + Len(lit)])

HasMatch(lit, text) ==
    \E i \in 1..Len(text) : MatchAt(lit, text, i)

\* start positions of all matches; findall scans left to right
MatchStarts(lit, text) ==
    {i \in 1..Len(text) : MatchAt(lit, text, i)}

RECURSIVE DigitRun(_, _)
\* the greedy group (\d+): the maximal run of digits from position j
DigitRun(text, j) ==
    IF j <= Len(text) /\ IsDigit(text[j]) THEN <<text[j]>> \o DigitRun(text, j + 1)
    ELSE <<>>

\* int(re.findall(lit + r"(\d+)", text)[0]), for a text that has a match
FirstMatchInt(lit, text) ==
    LET i == CHOOSE k \in MatchStarts(lit, text) :
                 \A m \in MatchStarts(lit, text) : k <= m
    IN  ParseInt(DigitRun(text, i + Len(lit)))

RECURSIVE CountMatchesFrom(_, _, _)
\* len(re.findall(lit + r"(\d+)", text)): non-overlapping matches, left to right
CountMatchesFrom(lit, text, i) ==
    IF i > Len(text) THEN 0
    ELSE IF MatchAt(lit, text, i)
         THEN 1 + CountMatchesFrom(lit, text,
                                   i + Len(lit) + Len(DigitRun(text, i + Len(lit))))
         ELSE CountMatchesFrom(lit, text, i + 1)

\* ------------------------------------------------------------------------
\* Configuration and fixed texts
\* ------------------------------------------------------------------------

\* os.getenv("ADMIN_CHAT_ID"): a string; the operator channel is a group chat
ADMIN_CHAT_ID ==
    <<"-", "1", "0", "0">>

WELCOME_MESSAGE ==
    <<"W", "e", "l", "c", "o", "m", "e", " ", "t", "o", " ", "s", "u", "p", "p", "o", "r", "t",
      " ", "b", "o", "t", "!", " ", "P", "l", "e", "a", "s", "e", " ", "s", "e", "n", "d", " ",
      "y", "o", "u", "r", " ", "c", "o", "m", "p", "l", "e", "t", "e", " ", "r", "e", "q", "u",
      "e", "s", "t", " ", "i", "n", " ", "a", " ", "s", "i", "n", "g", "l", "e", " ", "m", "e",
      "s", "s", "a", "g", "e", ",", " ", "a", "n", "d", " ", "w", "e", "'", "l", "l", " ", "f",
      "o", "r", "w", "a", "r", "d", " ", "i", "t", " ", "t", "o", " ", "o", "u", "r", " ", "t",
      "e", "a", "m", ".", " ", "T", "h", "i", "s", " ", "h", "e", "l", "p", "s", " ", "u", "s",
      " ", "p", "r", "o", "c", "e", "s", "s", " ", "y", "o", "u", "r", " ", "r", "e", "q", "u",
      "e", "s", "t", " ", "e", "f", "f", "i", "c", "i", "e", "n", "t", "l", "y", ".">>
CONFIRMATION_MESSAGE ==
    <<"T", "h", "a", "n", "k", "s", "!", " ", "W", "e", "'", "v", "e", " ", "r", "e", "c", "e",
      "i", "v", "e", "d", " ", "y", "o", "u", "r", " ", "r", "e", "q", "u", "e", "s", "t", " ",
      "a", "n", "d", " ", "w", "i", "l", "l", " ", "r", "e", "s", "p", "o", "n", "d", " ", "w",
      "i", "t", "h", "i", "n", " ", "a", " ", "f", "e", "w", " ", "h", "o", "u", "r", "s", ".",
      " ", "T", "h", "e", "r", "e", "'", "s", " ", "n", "o", " ", "n", "e", "e", "d", " ", "t",
      "o", " ", "s", "e", "n", "d", " ", "m", "u", "l", "t", "i", "p", "l", "e", " ", "m", "e",
      "s", "s", "a", "g", "e", "s", " ", "f", "o", "r", " ", "t", "h", "e", " ", "s", "a", "m",
      "e", " ", "i", "s", "s", "u", "e", ".", " ", "I", "f", " ", "y", "o", "u", "'", "d", " ",
      "l", "i", "k", "e", " ", "t", "o", " ", "a", "d", "d", " ", "m", "o", "r", "e", " ", "i",
      "n", "f", "o", "r", "m", "a", "t", "i", "o", "n", ",", " ", "p", "l", "e", "a", "s", "e",
      " ", "i", "n", "c", "l", "u", "d", "e", " ", "e", "v", "e", "r", "y", "t", "h", "i", "n",
      "g", " ", "i", "n", " ", "o", "n", "e", " ", "d", "e", "t", "a", "i", "l", "e", "d", " ",
      "m", "e", "s", "s", "a", "g", "e", ".">>
RESTART_TEXT ==
    <<"U+1F504", " ", "S", "t", "a", "r", "t", "/", "R", "e", "s", "t", "a", "r", "t">>
WARNING_TEXT ==
    <<"U+26A0", " ", "C", "o", "u", "l", "d", " ", "n", "o", "t", " ", "f", "i", "n", "d", " ",
      "t", "h", "e", " ", "u", "s", "e", "r", " ", "I", "D", " ", "i", "n", " ", "t", "h", "e",
      " ", "m", "e", "s", "s", "a", "g", "e", ".", " ", "M", "a", "k", "e", " ", "s", "u", "r",
      "e", " ", "y", "o", "u", "'", "r", "e", " ", "r", "e", "p", "l", "y", "i", "n", "g", " ",
      "t", "o", " ", "a", " ", "f", "o", "r", "w", "a", "r", "d", "e", "d", " ", "u", "s", "e",
      "r", " ", "m", "e", "s", "s", "a", "g", "e", ".">>
ERROR_PREFIX ==
    <<"U+26A0", " ", "E", "r", "r", "o", "r", " ", "s", "e", "n", "d", "i", "n", "g", " ", "m",
      "e", "s", "s", "a", "g", "e", " ", "t", "o", " ", "u", "s", "e", "r", ":", " ">>
CONFIRM_PREFIX ==
    <<"U+2705", " ", "M", "e", "s", "s", "a", "g", "e", " ", "s", "e", "n", "t", " ", "t", "o",
      " ", "u", "s", "e", "r", " ", "#", "I", "D">>
CONFIRM_MIDDLE ==
    <<" ", "(", "m", "e", "s", "s", "a", "g", "e", " ", "#">>
REPLY_ADMIN_PREFIX ==
    <<"U+21A9", " ", "R", "e", "p", "l", "y", " ", "t", "o", " ", "a", "d", "m", "i", "n", " ",
      "m", "e", "s", "s", "a", "g", "e", " ", "#">>
REPLY_PREFIX ==
    <<"U+21A9", " ", "R", "e", "p", "l", "y", " ", "t", "o", " ", "m", "e", "s", "s", "a", "g",
      "e", " ", "#">>
CONF_PATTERN ==
    <<"M", "e", "s", "s", "a", "g", "e", " ", "s", "e", "n", "t", " ", "t", "o", " ", "u", "s",
      "e", "r", " ", "#", "I", "D">>
CONF_MSG_PATTERN ==
    <<"m", "e", "s", "s", "a", "g", "e", " ", "#">>

\* str(e) of the exception a failed platform call raises
PLATFORM_ERROR ==
    <<"F", "o", "r", "b", "i", "d", "d", "e", "n">>

\* ------------------------------------------------------------------------
\* Helper functions
\* ------------------------------------------------------------------------

format_user_info(user) ==
    LET info == user.first_name \o <<" ">> \o OrStr(user.last_name, None)
        full == IF TruthyStr(user.username)
                THEN info \o <<" ", "(", "@">> \o Val(user.username) \o <<")">>
                ELSE info
    IN  Strip(full)

\* extract_user_id with the confirmation pattern tried first
extract_user_id_phrase_first(text) ==
    IF HasMatch(CONF_PATTERN, text)
    THEN Some(FirstMatchInt(CONF_PATTERN, text))
    ELSE IF HasMatch(<<"#", "I", "D">>, text)
         THEN Some(FirstMatchInt(<<"#", "I", "D">>, text))
         ELSE None

\* the user-id cascade of extract_ids_from_text
extract_user_id(text) ==
    IF HasMatch(<<"#", "I", "D">>, text)
    THEN Some(FirstMatchInt(<<"#", "I", "D">>, text))
    ELSE IF HasMatch(CONF_PATTERN, text)
         THEN Some(FirstMatchInt(CONF_PATTERN, text))
         ELSE None

\* the message-id cascade of extract_ids_from_text
extract_message_id(text) ==
    IF HasMatch(<<"#", "M", "S", "G">>, text)
    THEN Some(FirstMatchInt(<<"#", "M", "S", "G">>, text))
    ELSE IF HasMatch(CONF_MSG_PATTERN, text)
         THEN Some(FirstMatchInt(CONF_MSG_PATTERN, text))
         ELSE None

extract_ids_from_text(text) ==
    [user_id |-> extract_user_id(text), message_id |-> extract_message_id(text)]

TAG_LITERAL ==
    <<"#", "a", "d", "m", "s", "g">>

create_hidden_tag(admin_msg_id) ==
    <<"\n", "\n">> \o TAG_LITERAL \o Str(admin_msg_id)

\* extract_admin_msg_id with the group (\d) in place of (\d+)
extract_admin_msg_id_one_digit(text) ==
    IF HasMatch(TAG_LITERAL, text)
    THEN Some(FirstMatchInt(TAG_LITERAL, text) % 10)
    ELSE None

extract_admin_msg_id(text) ==
    IF HasMatch(TAG_LITERAL, text) THEN Some(FirstMatchInt(TAG_LITERAL, text)) ELSE None

\* ------------------------------------------------------------------------
\* Outbound platform calls
\* ------------------------------------------------------------------------

\* One call of the bot API.  site names the statement of the program that
\* makes the call; chat_id is written as the platform reads it,
\* in decimal; media is the file id passed (None for a text call); ok is
\* whether the platform accepted the call.
Call(site, api, chat_id, text, media, reply_to, markup, ok) ==
    [site |-> site, api |-> api, chat_id |-> chat_id, text |-> text, media |-> media,
     reply_to_message_id |-> reply_to, reply_markup |-> markup, ok |-> ok]

\* the file id of the attachment of one kind carried by a message
FileId(message, kind) ==
    <<kind, message.chat_id, message.message_id>>

\* MediaKind with the video branch tested before the photo branch
MediaKind_video_first(message) ==
    IF "video" \in message.attach THEN "video"
    ELSE IF "photo" \in message.attach THEN "photo"
    ELSE IF "document" \in message.attach THEN "document"
    ELSE IF "voice" \in message.attach THEN "voice"
    ELSE IF "audio" \in message.attach THEN "audio"
    ELSE "text"

\* the branch of the if/elif chain of send_message that a message takes
MediaKind(message) ==
    IF "photo" \in message.attach THEN "photo"
    ELSE IF "video" \in message.attach THEN "video"
    ELSE IF "document" \in message.attach THEN "document"
    ELSE IF "voice" \in message.attach THEN "voice"
    ELSE IF "audio" \in message.attach THEN "audio"
    ELSE "text"

ApiOf(kind) ==
    CASE kind = "photo" -> "send_photo"
      [] kind = "video" -> "send_video"
      [] kind = "document" -> "send_document"
      [] kind = "voice" -> "send_voice"
      [] kind = "audio" -> "send_audio"
      [] OTHER -> "send_message"

\* send_message that makes a rejected call a second time before raising
send_message_retry(chat_id, message, text, reply_to_message_id, admin_msg_id, with_button, fails) ==
    LET admin_tag == IF admin_msg_id # None THEN create_hidden_tag(Val(admin_msg_id))
                     ELSE <<>>
        kind == MediaKind(message)
        original == IF kind = "text" THEN OrStr(message.text, None)
                    ELSE OrStr(message.caption, None)
        body == IF text # None THEN Val(text) ELSE original
        outgoing == IF admin_msg_id # None THEN body \o admin_tag ELSE body
        media == IF kind = "text" THEN None ELSE Some(FileId(message, kind))
    IN  [calls |-> LET c == Call("send_message", ApiOf(kind), chat_id, outgoing, media,
                                 reply_to_message_id, with_button, ~fails)
                   IN  IF fails THEN <<c, c>> ELSE <<c>>,
         raised |-> fails,
         errors |-> IF fails THEN <<"send_message">> ELSE <<>>]

\* send_message: one platform call of the message's kind.  fails says that
\* the platform rejects the call; the exception is logged and re-raised.
send_message(chat_id, message, text, reply_to_message_id, admin_msg_id, with_button, fails) ==
    LET admin_tag == IF admin_msg_id # None THEN create_hidden_tag(Val(admin_msg_id))
                     ELSE <<>>
        kind == MediaKind(message)
        original == IF kind = "text" THEN OrStr(message.text, None)
                    ELSE OrStr(message.caption, None)
        body == IF text # None THEN Val(text) ELSE original
        outgoing == IF admin_msg_id # None THEN body \o admin_tag ELSE body
        media == IF kind = "text" THEN None ELSE Some(FileId(message, kind))
    IN  [calls |-> <<Call("send_message", ApiOf(kind), chat_id, outgoing, media, reply_to_message_id,
                          with_button, ~fails)>>,
         raised |-> fails,
         errors |-> IF fails THEN <<"send_message">> ELSE <<>>]

\* the calls of r, attributed to the statement that called send_message
At(site, r) ==
    [r EXCEPT !.calls = [i \in DOMAIN r.calls |-> [r.calls[i] EXCEPT !.site = site]]]

\* what a handler did: the platform calls it made, in order; whether an
\* exception left it; the logger.error entries it wrote (by call site)
Return ==
    [calls |-> <<>>, raised |-> FALSE, errors |-> <<>>]

\* ------------------------------------------------------------------------
\* Handlers.  F is the set of call sites whose platform call fails.
\* ------------------------------------------------------------------------

start(update, F) ==
    LET message == Val(update.message)
    IN  [calls |-> <<Call("welcome", "send_message", Str(message.chat_id), WELCOME_MESSAGE, None,
                          None, TRUE, "welcome" \notin F)>>,
         raised |-> "welcome" \in F,
         errors |-> <<>>]

\* lines 223-230: the operator message the user is replying to
admin_reply_id_of(message) ==
    IF message.reply_to_message # None
    THEN LET r == Val(message.reply_to_message)
         IN  extract_admin_msg_id(OrStr(r.text, r.caption))
    ELSE None

\* lines 249-264: the attachment descriptor
attachment_text(message) ==
    LET kind == MediaKind(message)
        label == CASE kind = "photo" -> <<"[", "P", "h", "o", "t", "o", "]">>
                   [] kind = "video" -> <<"[", "V", "i", "d", "e", "o", "]">>
                   [] kind = "document" ->
                        <<"[", "F", "i", "l", "e", ":", " ">> \o message.file_name \o <<"]">>
                   [] kind = "voice" ->
                        <<"[", "V", "o", "i", "c", "e", " ", "m", "e", "s", "s", "a", "g",
                          "e", "]">>
                   [] kind = "audio" ->
                        <<"[", "A", "u", "d", "i", "o", ":", " ">>
                          \o OrStr(message.audio_title,
                                   Some(<<"U", "n", "k", "n", "o", "w", "n", " ", "t", "i",
                                          "t", "l", "e">>))
                          \o <<"]">>
                   [] OTHER -> <<>>
        note == IF TruthyStr(message.caption)
                THEN <<" ", "w", "i", "t", "h", " ", "c", "a", "p", "t", "i", "o", "n", ":",
                       " ">> \o Val(message.caption)
                ELSE <<>>
    IN  IF kind = "text" THEN <<>>
        ELSE <<"A", "t", "t", "a", "c", "h", "m", "e", "n", "t", "s", ":", " ">>
               \o label \o note

\* lines 232-264: the text forwarded to the operator channel
admin_text_of(user, message) ==
    LET admin_reply_id == admin_reply_id_of(message)
        header == <<"[">> \o Strftime(message.date) \o <<"]", "\n">>
        from == <<"F", "r", "o", "m", ":", " ">> \o format_user_info(user)
                  \o <<" ", "#", "I", "D">> \o Str(user.id) \o <<"\n">>
        anchor == <<"#", "M", "S", "G">> \o Str(message.message_id) \o <<"\n">>
        reply == IF message.reply_to_message = None THEN <<>>
                 ELSE IF TruthyInt(admin_reply_id)
                      THEN REPLY_ADMIN_PREFIX \o Str(Val(admin_reply_id)) \o <<"\n">>
                      ELSE REPLY_PREFIX
                             \o Str(Val(message.reply_to_message).message_id) \o <<"\n">>
        content == IF TruthyStr(message.text)
                   THEN <<"M", "e", "s", "s", "a", "g", "e", ":", " ">>
                          \o Val(message.text) \o <<"\n">>
                   ELSE <<>>
    IN  header \o from \o anchor \o reply \o content \o attachment_text(message)

\* handle_user_message that confirms to the user whether or not the forward
\* was accepted
handle_user_message_always_confirms(update, F) ==
    IF update.message = None THEN Return
    ELSE IF update.effective_user = None THEN Return
    ELSE IF Val(update.message).text = Some(RESTART_TEXT) THEN start(update, F)
    ELSE
      LET user == Val(update.effective_user)
          message == Val(update.message)
          admin_reply_id == admin_reply_id_of(message)
          admin_text == admin_text_of(user, message)
          reply_to == IF TruthyInt(admin_reply_id) THEN admin_reply_id ELSE None
          sent == At("forward", send_message(ADMIN_CHAT_ID, message, Some(admin_text),
                                             reply_to, None, FALSE, "forward" \in F))
          ack == Call("ack", "send_message", Str(user.id), CONFIRMATION_MESSAGE, None, None,
                      TRUE, "ack" \notin F)
      IN  IF sent.raised
          THEN [calls |-> sent.calls \o <<ack>>, raised |-> FALSE,
                errors |-> sent.errors \o <<"handle_user_message">>]
          ELSE [calls |-> sent.calls \o <<ack>>, raised |-> FALSE,
                errors |-> IF "ack" \in F THEN <<"handle_user_message">> ELSE <<>>]

handle_user_message(update, F) ==
    IF update.message = None THEN Return
    ELSE IF update.effective_user = None THEN Return
    ELSE IF Val(update.message).text = Some(RESTART_TEXT) THEN start(update, F)
    ELSE
      LET user == Val(update.effective_user)
          message == Val(update.message)
          admin_reply_id == admin_reply_id_of(message)
          admin_text == admin_text_of(user, message)
          reply_to == IF TruthyInt(admin_reply_id) THEN admin_reply_id ELSE None
          sent == At("forward", send_message(ADMIN_CHAT_ID, message, Some(admin_text),
                                             reply_to, None, FALSE, "forward" \in F))
          ack == Call("ack", "send_message", Str(user.id), CONFIRMATION_MESSAGE, None, None,
                      TRUE, "ack" \notin F)
      IN  IF sent.raised
          THEN [calls |-> sent.calls, raised |-> FALSE,
                errors |-> sent.errors \o <<"handle_user_message">>]
          ELSE [calls |-> sent.calls \o <<ack>>, raised |-> FALSE,
                errors |-> IF "ack" \in F THEN <<"handle_user_message">> ELSE <<>>]

\* report_error with the report addressed to the chat of the failed dispatch
report_error_to_user(done, errors, F) ==
    [calls |-> done \o <<Call("report", "send_message", done[1].chat_id,
                              ERROR_PREFIX \o PLATFORM_ERROR, None, None, FALSE,
                              "report" \notin F)>>,
     raised |-> "report" \in F,
     errors |-> errors \o <<"handle_admin_message">>]

\* lines 332-338: the except clause of handle_admin_message
report_error(done, errors, F) ==
    [calls |-> done \o <<Call("report", "send_message", ADMIN_CHAT_ID,
                              ERROR_PREFIX \o PLATFORM_ERROR, None, None, FALSE,
                              "report" \notin F)>>,
     raised |-> "report" \in F,
     errors |-> errors \o <<"handle_admin_message">>]

\* confirmation_message with the two ids written in each other's place
confirmation_message_swapped(user_id, admin_msg_id) ==
    CONFIRM_PREFIX \o Str(admin_msg_id) \o CONFIRM_MIDDLE \o Str(user_id) \o <<")">>

\* line 326: the confirmation shown to the operator
confirmation_message(user_id, admin_msg_id) ==
    CONFIRM_PREFIX \o Str(user_id) \o CONFIRM_MIDDLE \o Str(admin_msg_id) \o <<")">>

handle_admin_message(update, F) ==
    IF update.message = None THEN Return
    ELSE IF Val(update.message).reply_to_message = None THEN Return
    ELSE
      LET message == Val(update.message)
          admin_msg_id == message.message_id
          r == Val(message.reply_to_message)
          reply_text == OrStr(r.text, r.caption)
          ids == extract_ids_from_text(reply_text)
          user_id == ids.user_id
          original_message_id == ids.message_id
      IN  IF ~TruthyInt(user_id)
          THEN [calls |-> <<Call("warning", "send_message", ADMIN_CHAT_ID, WARNING_TEXT, None,
                                 None, FALSE, "warning" \notin F)>>,
                raised |-> "warning" \in F,
                errors |-> <<"no_user_id">>]
          ELSE
            LET typing == Call("typing", "send_chat_action", Str(Val(user_id)),
                               <<"t", "y", "p", "i", "n", "g">>, None, None, FALSE,
                               "typing" \notin F)
                sent == At("relay", send_message(Str(Val(user_id)), message, None,
                                                 original_message_id, Some(admin_msg_id),
                                                 TRUE, "relay" \in F))
                confirm == Call("confirm", "send_message", ADMIN_CHAT_ID,
                                confirmation_message(Val(user_id), admin_msg_id), None,
                                Some(admin_msg_id), FALSE, "confirm" \notin F)
            IN  IF "typing" \in F THEN report_error(<<typing>>, <<>>, F)
                ELSE IF sent.raised
                     THEN report_error(<<typing>> \o sent.calls, sent.errors, F)
                ELSE IF "confirm" \in F
                     THEN report_error(<<typing>> \o sent.calls \o <<confirm>>, <<>>, F)
                ELSE [calls |-> <<typing>> \o sent.calls \o <<confirm>>,
                      raised |-> FALSE, errors |-> <<>>]

\* route_of with the reply test of the first branch left out
route_of_no_reply_test(chat_id, is_reply) ==
    IF Str(chat_id) = ADMIN_CHAT_ID THEN "admin"
    ELSE IF Str(chat_id) # ADMIN_CHAT_ID THEN "user"
    ELSE "ignore"

\* lines 362-365: the handler the routing condition selects
route_of(chat_id, is_reply) ==
    IF Str(chat_id) = ADMIN_CHAT_ID /\ is_reply THEN "admin"
    ELSE IF Str(chat_id) # ADMIN_CHAT_ID THEN "user"
    ELSE "ignore"

\* message_router without the restart test of lines 348-351
message_router_no_restart(update, F) ==
    IF update.message = None THEN [handler |-> "none"] @@ Return
    ELSE
      LET message == Val(update.message)
          route == route_of(update.effective_chat, message.reply_to_message # None)
      IN  IF route = "admin"
          THEN [handler |-> "admin"] @@ handle_admin_message(update, F)
          ELSE IF route = "user"
               THEN [handler |-> "user"] @@ handle_user_message(update, F)
          ELSE [handler |-> "ignore"] @@ Return

\* message_router; handler names the branch taken
message_router(update, F) ==
    IF update.message = None THEN [handler |-> "none"] @@ Return
    ELSE
      LET message == Val(update.message)
          route == route_of(update.effective_chat, message.reply_to_message # None)
      IN  IF message.text = Some(RESTART_TEXT)
          THEN [handler |-> "start"] @@ start(update, F)
          ELSE IF route = "admin"
               THEN [handler |-> "admin"] @@ handle_admin_message(update, F)
          ELSE IF route = "user"
               THEN [handler |-> "user"] @@ handle_user_message(update, F)
          ELSE [handler |-> "ignore"] @@ Return

\* ------------------------------------------------------------------------
\* The environment: who writes, and what
\* ------------------------------------------------------------------------

\* smallest and largest message id the platform assigns
MinMsgId ==
    9

MaxMsgId ==
    10

MsgIds ==
    MinMsgId..MaxMsgId

\* end-user identities; a first name is free text and may look like a marker
Users ==
    { [id |-> 7, first_name |-> <<"A", "l">>, last_name |-> None, username |-> None],
      [id |-> 12, first_name |-> <<"B", "o">>, last_name |-> Some(<<"L", "i">>),
       username |-> Some(<<"b", "o">>)],
      [id |-> 30, first_name |-> <<"#", "I", "D", "1", "2">>, last_name |-> None,
       username |-> None] }

\* a channel, other than the operator channel, whose posts have no sender
OTHER_CHANNEL ==
    0 - 200

Dates ==
    { [year |-> 2024, month |-> 3, day |-> 5, hour |-> 14, minute |-> 7, second |-> 0] }

\* what an end-user sends: text or attachment with optional caption
UserContents ==
    { [text |-> Some(<<"H", "e", "l", "l", "o">>), caption |-> None, attach |-> {}],
      [text |-> None, caption |-> Some(<<"s", "e", "e">>), attach |-> {"photo"}] }

\* what an operator sends; the second text carries tag-like text of its own
OperatorContents ==
    { [text |-> Some(<<"H", "i">>), caption |-> None, attach |-> {}],
      [text |-> Some(<<"#", "a", "d", "m", "s", "g", "5">>), caption |-> None,
       attach |-> {}],
      [text |-> None, caption |-> Some(<<"s", "e", "e">>), attach |-> {"photo"}] }

\* texts written by people in the operator channel, which an operator may reply to
OperatorTyped ==
    { <<"n", "o", "t", "e">>, <<"#", "I", "D", "0">> }

\* texts written by an end-user in their own chat, which they may reply to
UserTyped ==
    { <<"h", "m">>, <<"#", "a", "d", "m", "s", "g", "0">> }

Message(chat_id, message_id, date, content, reply_to_message) ==
    [chat_id |-> chat_id, message_id |-> message_id, date |-> date,
     text |-> content.text, caption |-> content.caption, attach |-> content.attach,
     file_name |-> <<"f", ".", "t", "x", "t">>, audio_title |-> None,
     reply_to_message |-> reply_to_message]

\* the message a reply refers to, as the platform attaches it to the update
Replied(message_id, placed) ==
    Some([message_id |-> message_id, text |-> placed.text, caption |-> placed.caption])

\* a text that a person typed into a chat
Typed(text) ==
    [site |-> "typed", chat_id |-> <<>>, text |-> Some(text), caption |-> None,
     peer |-> <<>>, mid |-> 0]

\* ------------------------------------------------------------------------
\* State
\* ------------------------------------------------------------------------

VARIABLES
    update,     \* the update being handled (None before the first one)
    result,     \* what message_router did with it: calls, raised, errors, handler
    opChannel,  \* the message that handling it placed in the operator channel
    userChat,   \* the message that handling it placed in an end-user chat
    target,     \* the message the update replies to, with where it came from
    process,    \* the bot process: its environment, how far it started, handlers
    tasks       \* the handler coroutines in flight, when updates are handled concurrently

vars ==
    <<update, result, opChannel, userChat, target, process, tasks>>

\* load_dotenv / os.getenv: the token the deployment is given
BOT_TOKEN ==
    <<"1", ":", "k", "e", "y">>

\* config_valid without the test of lines 29-30
config_valid_token_only(env) ==
    TruthyStr(env.TELEGRAM_BOT_TOKEN)

\* lines 27-30: neither the token nor the operator channel is missing
config_valid(env) ==
    TruthyStr(env.TELEGRAM_BOT_TOKEN) /\ TruthyStr(env.ADMIN_CHAT_ID)

\* lines 373-381: the handlers main() registers
HANDLERS ==
    {"start", "message_router"}

\* the process once main() polls, configured for the operator channel
RUNNING ==
    [env |-> [TELEGRAM_BOT_TOKEN |-> Some(BOT_TOKEN), ADMIN_CHAT_ID |-> Some(ADMIN_CHAT_ID)],
     phase |-> "polling", handlers |-> HANDLERS]

\* The message that an accepted call places in the destination chat.  The
\* platform shows the text of a media call as the caption.  peer and mid
\* record where it came from: the end-user chat concerned and the id of the
\* inbound message that caused it.
Placed(c, peer, mid) ==
    [site |-> c.site, chat_id |-> c.chat_id,
     text |-> IF c.api = "send_message" THEN Some(c.text) ELSE None,
     caption |-> IF c.api = "send_message" \/ c.text = <<>> THEN None ELSE Some(c.text),
     peer |-> peer, mid |-> mid]

\* the accepted calls of r that place a message in a chat selected by toOp
PlacedCalls(r, toOp) ==
    SelectSeq(r.calls, LAMBDA c : /\ c.ok
                                  /\ c.api # "send_chat_action"
                                  /\ (c.chat_id = ADMIN_CHAT_ID) = toOp)

\* the end-user chat that the calls of r concern
PeerOf(u, r) ==
    IF r.handler = "admin"
    THEN IF \E i \in DOMAIN r.calls : r.calls[i].site = "typing"
         THEN r.calls[1].chat_id ELSE <<>>
    ELSE Str(u.effective_chat)

\* the message that r placed in the chat (a handler places at most one
\* message in each chat), None when it placed none
Latest(u, r, toOp) ==
    LET cs == PlacedCalls(r, toOp)
    IN  IF cs = <<>> THEN None
        ELSE Some(Placed(cs[Len(cs)], PeerOf(u, r), Val(u.message).message_id))

\* the platform delivers update u, whose calls fail at the sites in F
Deliver(u, tg, F) ==
    \E r \in {message_router(u, F)} :
        /\ update' = Some(u)
        /\ target' = tg
        /\ result' = r
        /\ opChannel' = IF u.message = None THEN None ELSE Latest(u, r, TRUE)
        /\ userChat' = IF u.message = None THEN None ELSE Latest(u, r, FALSE)
        /\ UNCHANGED <<process, tasks>>

Init ==
    /\ update = None
    /\ result = [handler |-> "none"] @@ Return
    /\ opChannel = None
    /\ userChat = None
    /\ target = None
    /\ process = RUNNING
    /\ tasks = <<>>

\* what an end-user may reply to: nothing, the message the bot has just
\* placed in their chat, or a text of their own
UserReplyTargets(user) ==
    {None}
      \cup (IF userChat # None /\ Val(userChat).chat_id = Str(user.id)
            THEN {userChat} ELSE {})
      \cup {Some(Typed(t)) : t \in UserTyped}

\* what an operator may reply to: the message the bot has just placed in
\* the operator channel, or a text somebody wrote there
OperatorReplyTargets ==
    (IF opChannel # None THEN {opChannel} ELSE {})
      \cup {Some(Typed(t)) : t \in OperatorTyped}

\* the id of the message replied to, which is not the replying message
NextId(id) ==
    IF id = MaxMsgId THEN MinMsgId ELSE id + 1

\* the reply reference of an update that replies to tg, which has the id rid
ReplyRef(tg, rid) ==
    IF tg = None THEN None ELSE Replied(rid, Val(tg))

\* ways the platform calls of one update fail: none does, or one of the
\* calls of the handler's main path does and, on the operator path, the
\* error report after it may fail too
UserFailures ==
    { {}, {"forward"}, {"ack"} }

OperatorFailures ==
    { {}, {"warning"}, {"typing"}, {"relay"}, {"confirm"},
      {"typing", "report"}, {"relay", "report"}, {"confirm", "report"} }

\* the failures of fs that can happen when replying to tg
Possible(fs, tg) ==
    LET found == TruthyInt(extract_user_id(OrStr(Val(tg).text, Val(tg).caption)))
    IN  {F \in fs : F # {} => (("warning" \in F) = ~found)}

\* the operator channel as the platform numbers it
OPERATOR_CHAT ==
    0 - 100

OPERATOR ==
    [id |-> 99, first_name |-> <<"O", "p">>, last_name |-> None, username |-> None]

\* an end-user writes to the bot in their private chat
UserMessage ==
    \E user \in Users, id \in MsgIds, rid \in MsgIds, d \in Dates, c \in UserContents,
       F \in UserFailures :
      \E tg \in UserReplyTargets(user) :
        /\ rid = NextId(id)
        /\ Deliver([message |-> Some(Message(user.id, id, d, c, ReplyRef(tg, rid))),
                    effective_user |-> Some(user),
                    effective_chat |-> user.id], tg, F)

\* an operator replies to a message of the operator channel
OperatorReply ==
    \E id \in MsgIds, rid \in MsgIds, d \in Dates, c \in OperatorContents :
      \E tg \in OperatorReplyTargets :
       \E F \in Possible(OperatorFailures, tg) :
        /\ rid = NextId(id)
        /\ Deliver([message |-> Some(Message(OPERATOR_CHAT, id, d, c, ReplyRef(tg, rid))),
                 effective_user |-> Some(OPERATOR),
                 effective_chat |-> OPERATOR_CHAT], tg, F)

\* an operator writes in the operator channel without replying
OperatorPost ==
    \E id \in MsgIds, d \in Dates, c \in OperatorContents :
      Deliver([message |-> Some(Message(OPERATOR_CHAT, id, d, c, None)),
               effective_user |-> Some(OPERATOR),
               effective_chat |-> OPERATOR_CHAT], None, {})

\* somebody presses the Start/Restart button, in any chat, replying or not
RestartPressed ==
    \E who \in Users \cup {OPERATOR}, id \in MsgIds, d \in Dates,
       F \in SUBSET {"welcome"} :
      \E tg \in {None} \cup (IF who = OPERATOR THEN OperatorReplyTargets
                              ELSE UserReplyTargets(who)) :
        LET chat == IF who = OPERATOR THEN OPERATOR_CHAT ELSE who.id
            c == [text |-> Some(RESTART_TEXT), caption |-> None, attach |-> {}]
        IN  Deliver([message |-> Some(Message(chat, id, d, c, ReplyRef(tg, NextId(id)))),
                     effective_user |-> Some(who),
                     effective_chat |-> chat], tg, F)

\* a post in some other channel: the update has a message but no sender
ChannelPost ==
    \E id \in MsgIds, d \in Dates, c \in UserContents :
      Deliver([message |-> Some(Message(OTHER_CHANNEL, id, d, c, None)),
               effective_user |-> None,
               effective_chat |-> OTHER_CHANNEL], None, {})

\* an update that carries no message (an edit, a callback)
OtherUpdate ==
    \E who \in Users :
      Deliver([message |-> None, effective_user |-> Some(who),
               effective_chat |-> who.id], None, {})

Next ==
    \/ UserMessage
    \/ OperatorReply
    \/ OperatorPost
    \/ RestartPressed
    \/ ChannelPost
    \/ OtherUpdate

Spec ==
    Init /\ [][Next]_vars
\* ------------------------------------------------------------------------
\* send_message on its own: every attachment combination, with and without
\* override text, reply reference, operator message id, keyboard, failure
\* ------------------------------------------------------------------------

AttachmentKinds ==
    {"photo", "video", "document", "voice", "audio"}

SendArguments ==
    [chat_id : {ADMIN_CHAT_ID, Str(12)},
     message : {Message(12, MinMsgId, d, [text |-> t, caption |-> c, attach |-> a], None) :
                  d \in Dates, t \in {None, Some(<<"H", "i">>)},
                  c \in {None, Some(<<"s", "e", "e">>)}, a \in SUBSET AttachmentKinds},
     text : {None, Some(<<>>), Some(<<"o", "v", "e", "r">>)},
     reply_to_message_id : {None, Some(MinMsgId)},
     admin_msg_id : {None, Some(0), Some(MaxMsgId)},
     with_restart_button : BOOLEAN,
     fails : BOOLEAN]

\* the arguments of the call to come are drawn; nothing has been sent
SendInit ==
    /\ update \in {Some(a) : a \in SendArguments}
    /\ result = [handler |-> "none"] @@ Return
    /\ opChannel = None
    /\ userChat = None
    /\ target = None
    /\ process = RUNNING
    /\ tasks = <<>>

\* the call of send_message with the arguments drawn
SendCall ==
    /\ result.handler = "none"
    /\ \E a \in {Val(update)} :
         result' = [handler |-> "send_message"]
                     @@ send_message(a.chat_id, a.message, a.text, a.reply_to_message_id,
                                     a.admin_msg_id, a.with_restart_button, a.fails)
    /\ UNCHANGED <<update, opChannel, userChat, target, process, tasks>>

SendNext ==
    SendCall

SendSpec ==
    SendInit /\ [][SendNext]_vars

\* ------------------------------------------------------------------------
\* Startup: the module is loaded with some environment, then main() runs
\* ------------------------------------------------------------------------

\* what os.getenv may return for the two settings: unset, empty, set
Environments ==
    [TELEGRAM_BOT_TOKEN : {None, Some(<<>>), Some(BOT_TOKEN)},
     ADMIN_CHAT_ID : {None, Some(<<>>), Some(ADMIN_CHAT_ID)}]

StartInit ==
    /\ update = None
    /\ result = [handler |-> "none"] @@ Return
    /\ opChannel = None
    /\ userChat = None
    /\ target = None
    /\ process \in {[env |-> e, phase |-> "import", handlers |-> {}] : e \in Environments}
    /\ tasks = <<>>

\* lines 11-37: the module body; a missing setting raises ValueError
LoadModule ==
    /\ process.phase = "import"
    /\ process' = [process EXCEPT
                     !.phase = IF config_valid(process.env) THEN "loaded" ELSE "failed"]
    /\ UNCHANGED <<update, result, opChannel, userChat, target, tasks>>

\* lines 367-387: main() registers the handlers and starts polling
Main ==
    /\ process.phase = "loaded"
    /\ process' = [process EXCEPT !.phase = "polling", !.handlers = HANDLERS]
    /\ UNCHANGED <<update, result, opChannel, userChat, target, tasks>>

\* run_polling hands an update to the registered handler
Polling ==
    /\ process.phase = "polling"
    /\ "message_router" \in process.handlers
    /\ (UserMessage \/ RestartPressed \/ OtherUpdate)

StartNext ==
    \/ LoadModule
    \/ Main
    \/ Polling

StartSpec ==
    StartInit /\ [][StartNext]_vars

\* ------------------------------------------------------------------------
\* The extraction functions on their own
\* ------------------------------------------------------------------------

\* largest operator message id encoded into a tag
MaxTagId ==
    120

\* user ids written into the texts to search
IdSamples ==
    {0, 7, 12, 305}

Separators ==
    { <<>>, <<" ">>, <<"\n", "r", "e", ":", " ">> }

\* texts that hold no #admsg<digits>
Untagged ==
    { <<>>, <<"H", "e", "l", "l", "o">>, TAG_LITERAL, TAG_LITERAL \o <<" ", "5">>,
      TAG_LITERAL \o <<"-", "5">>, <<"a", "d", "m", "s", "g", "5">>,
      <<"#", "A", "D", "M", "S", "G", "5">>, <<"#", " ", "a", "d", "m", "s", "g", "5">>,
      <<"#", "a", "d", "m", "s", "5">>, <<"\n", "\n", "#", "I", "D", "5">> }

DistinctIds ==
    {ab \in IdSamples \X IdSamples : ab[1] # ab[2]}

\* what is given to the functions: an operator message id to encode and
\* decode, a text built without tag, or a text built from a canonical tag
\* of user id a and a historical confirmation phrase of user id b
CodecInputs ==
    {[kind |-> "id", n |-> n] : n \in 0..MaxTagId}
      \cup {[kind |-> "untagged", text |-> t] : t \in Untagged}
      \cup {[kind |-> "both", a |-> ab[1], b |-> ab[2], first |-> "tag",
              text |-> <<"#", "I", "D">> \o Str(ab[1]) \o s \o CONF_PATTERN \o Str(ab[2])] :
               ab \in DistinctIds, s \in Separators}
      \cup {[kind |-> "both", a |-> ab[1], b |-> ab[2], first |-> "phrase",
              text |-> CONF_PATTERN \o Str(ab[2]) \o s \o <<"#", "I", "D">> \o Str(ab[1])] :
               ab \in DistinctIds, s \in Separators}

CodecInit ==
    /\ update \in {Some(i) : i \in CodecInputs}
    /\ result = [handler |-> "none"] @@ Return
    /\ opChannel = None
    /\ userChat = None
    /\ target = None
    /\ process = RUNNING
    /\ tasks = <<>>

\* an operator message id is encoded into a tag and the tag decoded
RoundTrip ==
    /\ result.handler = "none"
    /\ Val(update).kind = "id"
    /\ \E tag \in {create_hidden_tag(Val(update).n)} :
         result' = [handler |-> "codec", encoded |-> tag,
                    decoded |-> extract_admin_msg_id(tag)]
    /\ UNCHANGED <<update, opChannel, userChat, target, process, tasks>>

\* both extraction functions are applied to a text
Extract ==
    /\ result.handler = "none"
    /\ Val(update).kind # "id"
    /\ result' = [handler |-> "extract",
                  ids |-> extract_ids_from_text(Val(update).text),
                  decoded |-> extract_admin_msg_id(Val(update).text)]
    /\ UNCHANGED <<update, opChannel, userChat, target, process, tasks>>

CodecNext ==
    \/ RoundTrip
    \/ Extract

CodecSpec ==
    CodecInit /\ [][CodecNext]_vars

\* ------------------------------------------------------------------------
\* Concurrent handling.  A handler is a coroutine: it runs from one awaited
\* platform call to the next, and other handlers may run in between when
\* the library handles updates concurrently.  The process may be restarted
\* at any moment; what the platform has delivered stays delivered.
\* ------------------------------------------------------------------------

\* the coroutines that may be in flight together
Slots ==
    {1, 2}

\* a slot with no coroutine in it
IDLE ==
    [update |-> None, pc |-> "idle", calls |-> <<>>, old_target |-> FALSE,
     overlapped |-> FALSE]

\* the updates the platform may deliver: two users write, one presses the
\* button, the operator replies to the latest forwarded copy or to a note
Arrivals ==
    LET d == CHOOSE x \in Dates : TRUE
        al == CHOOSE u \in Users : u.id = 7
        bo == CHOOSE u \in Users : u.id = 12
        hello == [text |-> Some(<<"H", "e", "l", "l", "o">>), caption |-> None, attach |-> {}]
        photo == [text |-> None, caption |-> Some(<<"s", "e", "e">>), attach |-> {"photo"}]
        hi == [text |-> Some(<<"H", "i">>), caption |-> None, attach |-> {}]
        button == [text |-> Some(RESTART_TEXT), caption |-> None, attach |-> {}]
        note == Some(Typed(<<"n", "o", "t", "e">>))
    IN  {[update |-> [message |-> Some(Message(al.id, MinMsgId, d, hello, None)),
                      effective_user |-> Some(al), effective_chat |-> al.id],
          old |-> FALSE],
         [update |-> [message |-> Some(Message(bo.id, MaxMsgId, d, photo, None)),
                      effective_user |-> Some(bo), effective_chat |-> bo.id],
          old |-> FALSE],
         [update |-> [message |-> Some(Message(al.id, MaxMsgId, d, button, None)),
                      effective_user |-> Some(al), effective_chat |-> al.id],
          old |-> FALSE]}
          \cup {[update |-> [message |-> Some(Message(OPERATOR_CHAT, MinMsgId, d, hi,
                                                      ReplyRef(tg, MaxMsgId))),
                             effective_user |-> Some(OPERATOR),
                             effective_chat |-> OPERATOR_CHAT],
                 old |-> IF Val(tg).site = "forward" THEN Val(tg).old ELSE FALSE] :
                  tg \in {note} \cup (IF opChannel # None THEN {opChannel} ELSE {})}

\* the first awaited call a handler reaches for an update ("done" when it
\* returns without one): lines 342-365, 203-213, 286-307
first_await(u) ==
    IF u.message = None THEN "done"
    ELSE
      LET message == Val(u.message)
          route == route_of(u.effective_chat, message.reply_to_message # None)
      IN  IF message.text = Some(RESTART_TEXT) THEN "welcome"
          ELSE IF route = "admin"
               THEN LET r == Val(message.reply_to_message)
                        ids == extract_ids_from_text(OrStr(r.text, r.caption))
                    IN  IF ~TruthyInt(ids.user_id) THEN "warning" ELSE "typing"
          ELSE IF route = "user"
               THEN IF u.effective_user = None THEN "done" ELSE "forward"
          ELSE "done"

\* where a coroutine resumes after the call awaited at pc returned (ok) or
\* raised: the try/except blocks of lines 266-282 and 309-338
next_await(pc, ok) ==
    CASE pc = "forward" -> IF ok THEN "ack" ELSE "done"
      [] pc = "typing" -> IF ok THEN "relay" ELSE "report"
      [] pc = "relay" -> IF ok THEN "confirm" ELSE "report"
      [] pc = "confirm" -> IF ok THEN "done" ELSE "report"
      [] OTHER -> "done"

\* the platform call a coroutine makes at pc, built from its own update u
\* and its local user
awaited_call(u, user, pc, ok) ==
    LET message == Val(u.message)
    IN  CASE pc = "welcome" ->
               Call("welcome", "send_message", Str(message.chat_id), WELCOME_MESSAGE, None,
                    None, TRUE, ok)
          [] pc = "forward" ->
               LET admin_reply_id == admin_reply_id_of(message)
                   reply_to == IF TruthyInt(admin_reply_id) THEN admin_reply_id ELSE None
               IN  At("forward", send_message(ADMIN_CHAT_ID, message,
                                              Some(admin_text_of(user, message)), reply_to,
                                              None, FALSE, ~ok)).calls[1]
          [] pc = "ack" ->
               Call("ack", "send_message", Str(user.id), CONFIRMATION_MESSAGE, None, None,
                    TRUE, ok)
          [] pc = "warning" ->
               Call("warning", "send_message", ADMIN_CHAT_ID, WARNING_TEXT, None, None,
                    FALSE, ok)
          [] pc = "report" ->
               Call("report", "send_message", ADMIN_CHAT_ID, ERROR_PREFIX \o PLATFORM_ERROR,
                    None, None, FALSE, ok)
          [] OTHER ->
               LET r == Val(message.reply_to_message)
                   ids == extract_ids_from_text(OrStr(r.text, r.caption))
                   user_id == Val(ids.user_id)
                   admin_msg_id == message.message_id
               IN  CASE pc = "typing" ->
                          Call("typing", "send_chat_action", Str(user_id),
                               <<"t", "y", "p", "i", "n", "g">>, None, None, FALSE, ok)
                     [] pc = "relay" ->
                          At("relay", send_message(Str(user_id), message, None,
                                                   ids.message_id, Some(admin_msg_id), TRUE,
                                                   ~ok)).calls[1]
                     [] OTHER ->
                          Call("confirm", "send_message", ADMIN_CHAT_ID,
                               confirmation_message(user_id, admin_msg_id), None,
                               Some(admin_msg_id), FALSE, ok)

\* the coroutines that are suspended at an awaited call
Running(ts) ==
    {j \in DOMAIN ts : ts[j].pc \notin {"idle", "done"}}

\* user_of with the user kept in one module-level variable, which the
\* coroutine started last has overwritten
user_of_module_global(ts, k) ==
    LET last == CHOOSE j \in Running(ts) : \A i \in Running(ts) : i <= j
    IN  Val(Val(ts[last].update).effective_user)

\* line 206: user is a local of the coroutine, read from its own update
user_of(ts, k) ==
    Val(Val(ts[k].update).effective_user)

ConcInit ==
    /\ update = None
    /\ result = [handler |-> "none"] @@ Return
    /\ opChannel = None
    /\ userChat = None
    /\ target = None
    /\ process = RUNNING
    /\ tasks = [k \in Slots |-> IDLE]

\* an update arrives and the library starts message_router on it, which
\* runs up to its first awaited call
Arrive ==
    \E k \in Slots, a \in Arrivals :
      /\ process.phase = "polling"
      /\ tasks[k].pc \in {"idle", "done"}
      /\ tasks' = [tasks EXCEPT ![k] = [update |-> Some(a.update),
                                        pc |-> first_await(a.update),
                                        calls |-> <<>>,
                                        old_target |-> a.old,
                                        overlapped |-> FALSE]]
      /\ UNCHANGED <<update, result, opChannel, userChat, target, process>>

\* the call a coroutine awaits returns or raises, and the coroutine runs on
\* to its next awaited call; an accepted forward appears in the operator
\* channel
Resume ==
    \E k \in Slots, ok \in BOOLEAN :
      /\ k \in Running(tasks)
      /\ LET t == tasks[k]
             u == Val(t.update)
             c == awaited_call(u, user_of(tasks, k), t.pc, ok)
         IN  /\ tasks' = [j \in Slots |->
                            IF j = k
                            THEN [t EXCEPT !.calls = Append(t.calls, c),
                                           !.pc = next_await(t.pc, ok)]
                            ELSE IF j \in Running(tasks)
                                 THEN [tasks[j] EXCEPT !.overlapped = TRUE]
                                 ELSE tasks[j]]
             /\ opChannel' = IF t.pc = "forward" /\ ok
                             THEN Some([old |-> FALSE]
                                         @@ Placed(c, Str(u.effective_chat),
                                                   Val(u.message).message_id))
                             ELSE opChannel
      /\ UNCHANGED <<update, result, userChat, target, process>>

\* the process is stopped and started again (lines 367-390): every
\* coroutine and its locals are gone, the chats keep what they were sent
Restart ==
    /\ tasks' = [k \in Slots |-> IDLE]
    /\ opChannel' = IF opChannel = None THEN None
                    ELSE Some([Val(opChannel) EXCEPT !.old = TRUE])
    /\ UNCHANGED <<update, result, userChat, target, process>>

ConcNext ==
    \/ Arrive
    \/ Resume
    \/ Restart

ConcSpec ==
    ConcInit /\ [][ConcNext]_vars

\* ------------------------------------------------------------------------
\* Properties
\* ------------------------------------------------------------------------

\* an update with a message has been handled
Handled ==
    update # None /\ result.handler # "send_message" /\ Val(update).message # None

\* the message of the update handled
Msg ==
    Val(Val(update).message)

\* the text or caption of the message the update replies to
RepliedText ==
    OrStr(Val(Msg.reply_to_message).text, Val(Msg.reply_to_message).caption)

\* the positions of the calls made at a site
CallsAt(site) ==
    {i \in DOMAIN result.calls : result.calls[i].site = site}

\* the calls addressed to a chat other than the operator channel
ToUsers ==
    {i \in DOMAIN result.calls : result.calls[i].chat_id # ADMIN_CHAT_ID}

Contains(sub, text) ==
    \E i \in 1..(Len(text) - Len(sub) + 1) : SubSeq(text, i, i + Len(sub) - 1) = sub

IsPrefix(pre, text) ==
    Len(pre) <= Len(text) /\ SubSeq(text, 1, Len(pre)) = pre

\* C1: when an operator replies to the forwarded copy of the message mid of
\* user uid, whatever the user's names and the message's content, the
\* operator's content is dispatched to chat uid as a reply to mid, and to
\* no other chat and with no other reply reference.
C1_ReplyReachesSender ==
    (Handled /\ result.handler = "admin" /\ target # None
       /\ Val(target).site = "forward")
    => /\ CallsAt("typing") # {}
       /\ \A i \in CallsAt("typing") \cup CallsAt("relay") :
            result.calls[i].chat_id = Val(target).peer
       /\ \A i \in CallsAt("relay") :
            result.calls[i].reply_to_message_id = Some(Val(target).mid)

\* C2: an update whose text is not the restart text is routed by the pair
\* (chat is the operator channel, message is a reply) alone: any other chat
\* takes the user path, an operator reply the admin path, and an operator
\* message that is no reply is ignored with no call, no error, no exception.
C2_RoutingTable ==
    (Handled /\ Msg.text # Some(RESTART_TEXT))
    => LET isOperatorChat == Val(update).effective_chat = OPERATOR_CHAT
           isReply == Msg.reply_to_message # None
       IN  /\ ~isOperatorChat => result.handler = "user"
           /\ (isOperatorChat /\ isReply) => result.handler = "admin"
           /\ (isOperatorChat /\ ~isReply) =>
                 /\ result.handler = "ignore"
                 /\ result.calls = <<>>
                 /\ ~result.raised
                 /\ result.errors = <<>>

\* C2 witness: an operator message that replies to nothing has been ignored
C2_Witness ==
    /\ Handled
    /\ Msg.text # Some(RESTART_TEXT)
    /\ Val(update).effective_chat = OPERATOR_CHAT
    /\ Msg.reply_to_message = None
    /\ result.handler = "ignore"

\* C3: on the admin path the warning goes to the operator channel, and no
\* call at all goes to an end-user, exactly when the text replied to holds
\* no user id; when it holds one (any number from 0 up) there is no warning
\* and a dispatch to that user id is attempted.
C3_WarningIffNoUserId ==
    (Handled /\ result.handler = "admin")
    => LET found == extract_user_id(RepliedText)
           warned == \E i \in DOMAIN result.calls :
                        /\ result.calls[i].text = WARNING_TEXT
                        /\ result.calls[i].chat_id = ADMIN_CHAT_ID
       IN  /\ (warned /\ ToUsers = {}) <=> (found = None)
           /\ found # None =>
                 /\ ~warned
                 /\ \E i \in ToUsers : result.calls[i].chat_id = Str(Val(found))

\* C4: no failure of a platform call leaves the handler as an exception;
\* on the admin path a failed dispatch ends with an error report to the
\* operator channel, on the user path a failure leaves a log entry.
C4_FailuresStayInside ==
    Handled
    => /\ ~result.raised
       /\ (result.handler = "admin"
            /\ \E i \in CallsAt("typing") \cup CallsAt("relay") : ~result.calls[i].ok)
          => /\ result.calls[Len(result.calls)].chat_id = ADMIN_CHAT_ID
             /\ IsPrefix(ERROR_PREFIX, result.calls[Len(result.calls)].text)
       /\ (result.handler = "user" /\ \E i \in DOMAIN result.calls : ~result.calls[i].ok)
          => result.errors # <<>>

\* C5: after a successful relay of operator message m to user uid, the
\* confirmation is addressed to the operator channel as a reply to m and the
\* user id extracted from its text is uid; and an operator reply to such a
\* confirmation is dispatched to that same chat uid.
C5_ConfirmationNamesUser ==
    (Handled /\ result.handler = "admin")
    => /\ \A i \in CallsAt("relay") :
            result.calls[i].ok =>
              \E j \in CallsAt("confirm") :
                /\ j > i
                /\ result.calls[j].chat_id = ADMIN_CHAT_ID
                /\ result.calls[j].reply_to_message_id = Some(Msg.message_id)
                /\ extract_ids_from_text(result.calls[j].text).user_id # None
                /\ Str(Val(extract_ids_from_text(result.calls[j].text).user_id))
                     = result.calls[i].chat_id
       /\ (target # None /\ Val(target).site = "confirm") =>
            /\ CallsAt("typing") # {}
            /\ \A i \in CallsAt("typing") \cup CallsAt("relay") :
                 result.calls[i].chat_id = Val(target).peer

\* C5 witness: an operator has replied to a confirmation and the content was
\* relayed to the user the confirmation names, and confirmed again
C5_Witness ==
    /\ Handled
    /\ result.handler = "admin"
    /\ target # None
    /\ Val(target).site = "confirm"
    /\ \E i \in CallsAt("relay") :
         result.calls[i].ok /\ result.calls[i].chat_id = Val(target).peer
    /\ \E j \in CallsAt("confirm") : result.calls[j].ok

\* C6: on the user path, a message that replies to a text or caption carrying
\* the tag of operator message N (any N from 0 up) is forwarded as a reply
\* to N with a text saying it replies to admin message N; a message that is
\* no reply, or replies to a text without tag, is forwarded with no reply
\* reference.
C6_ForwardThreadsOnTag ==
    (Handled /\ result.handler = "user")
    => \A i \in CallsAt("forward") :
         LET tag == IF Msg.reply_to_message = None THEN None
                    ELSE extract_admin_msg_id(RepliedText)
         IN  IF tag # None
             THEN /\ result.calls[i].reply_to_message_id = tag
                  /\ Contains(REPLY_ADMIN_PREFIX \o Str(Val(tag)) \o <<"\n">>,
                              result.calls[i].text)
             ELSE result.calls[i].reply_to_message_id = None

\* C7: every text or caption the admin path dispatches to an end-user holds
\* exactly one tag: the operator's text or caption, unchanged, followed by
\* two newlines and #admsg<N>, N being the operator message's id, and
\* decoding the text gives N -- also when the operator's text holds
\* tag-like text.
C7_ExactlyOneTag ==
    (Handled /\ result.handler = "admin")
    => \A i \in CallsAt("relay") :
         /\ result.calls[i].text
              = OrStr(Msg.text, Msg.caption)
                  \o <<"\n", "\n", "#", "a", "d", "m", "s", "g">> \o Str(Msg.message_id)
         /\ CountMatchesFrom(TAG_LITERAL, result.calls[i].text, 1) = 1
         /\ extract_admin_msg_id(result.calls[i].text) = Some(Msg.message_id)

\* the attachment kinds in the order send_message is to prefer them
KindOrder ==
    <<"photo", "video", "document", "voice", "audio">>

\* C8: send_message makes exactly one platform call; its kind is the first
\* attachment kind present in the order photo, video, document, voice,
\* audio, or send-text when none is present; the text passed is the override
\* when given, else the original caption or text (empty when absent),
\* followed by the tag exactly when an operator message id was supplied.
C8_OneCallOfTheKind ==
    (update # None /\ result.handler = "send_message")
    => LET a == Val(update)
           present == {k \in 1..Len(KindOrder) : KindOrder[k] \in a.message.attach}
           first == CHOOSE k \in present : \A m \in present : k <= m
           api == IF present = {} THEN "send_message"
                  ELSE CASE first = 1 -> "send_photo"
                         [] first = 2 -> "send_video"
                         [] first = 3 -> "send_document"
                         [] first = 4 -> "send_voice"
                         [] first = 5 -> "send_audio"
           original == IF present = {} THEN a.message.text ELSE a.message.caption
           base == IF a.text # None THEN Val(a.text)
                   ELSE IF original = None THEN <<>> ELSE Val(original)
           tag == IF a.admin_msg_id = None THEN <<>>
                  ELSE <<"\n", "\n", "#", "a", "d", "m", "s", "g">>
                         \o Str(Val(a.admin_msg_id))
       IN  /\ Len(result.calls) = 1
           /\ result.calls[1].api = api
           /\ result.calls[1].chat_id = a.chat_id
           /\ result.calls[1].text = base \o tag
           /\ result.calls[1].media
                = IF present = {} THEN None
                  ELSE Some(<<KindOrder[first], a.message.chat_id, a.message.message_id>>)
           /\ result.calls[1].reply_to_message_id = a.reply_to_message_id
           /\ result.raised = ~result.calls[1].ok

\* C8 witness: a photo with caption "see" (and a video beside it), sent with
\* an operator message id and no override, went out as that photo with the
\* caption followed by the tag
C8_Witness ==
    /\ update # None
    /\ result.handler = "send_message"
    /\ Val(update).message.attach = {"photo", "video"}
    /\ Val(update).message.caption = Some(<<"s", "e", "e">>)
    /\ Val(update).text = None
    /\ Val(update).admin_msg_id = Some(MaxMsgId)
    /\ result.calls[1].ok
    /\ result.calls[1].api = "send_photo"
    /\ result.calls[1].text
         = <<"s", "e", "e", "\n", "\n", "#", "a", "d", "m", "s", "g">> \o Str(MaxMsgId)

\* C9: a message whose text is the restart text, in any chat and replying or
\* not, makes the bot send the welcome text to the chat it came from and do
\* nothing else: no forward, no confirmation, no relay, no warning.
C9_RestartOnlyWelcomes ==
    (Handled /\ Msg.text = Some(RESTART_TEXT))
    => /\ result.handler = "start"
       /\ Len(result.calls) = 1
       /\ result.calls[1].api = "send_message"
       /\ result.calls[1].text = WELCOME_MESSAGE
       /\ result.calls[1].chat_id = Str(Val(update).effective_chat)
       /\ result.calls[1].media = None

\* C9 witness: the restart text arrived in the operator channel as a reply to
\* a forwarded user message, and the welcome text went to the operator channel
C9_Witness ==
    /\ Handled
    /\ Msg.text = Some(RESTART_TEXT)
    /\ Val(update).effective_chat = OPERATOR_CHAT
    /\ target # None
    /\ Val(target).site = "forward"
    /\ result.calls[1].ok
    /\ result.calls[1].chat_id = ADMIN_CHAT_ID

\* C10: every message sent to a chat other than the operator channel is the
\* welcome text, the fixed confirmation text, or the operator's content
\* followed by the tag; the warning and the error report are addressed to
\* the operator channel only.
C10_UsersSeeNoErrorDetail ==
    Handled
    => \A i \in DOMAIN result.calls :
         LET c == result.calls[i]
         IN  /\ (c.chat_id # ADMIN_CHAT_ID /\ c.api # "send_chat_action") =>
                   \/ c.text = WELCOME_MESSAGE
                   \/ c.text = CONFIRMATION_MESSAGE
                   \/ /\ result.handler = "admin"
                      /\ c.text = OrStr(Msg.text, Msg.caption)
                                    \o create_hidden_tag(Msg.message_id)
             /\ (c.text = WARNING_TEXT \/ IsPrefix(ERROR_PREFIX, c.text)) =>
                   c.chat_id = ADMIN_CHAT_ID

\* C10 witness: a relay to an end-user failed and the error report reached
\* the operator channel
C10_Witness ==
    /\ Handled
    /\ result.handler = "admin"
    /\ \E i \in CallsAt("relay") :
         ~result.calls[i].ok /\ result.calls[i].chat_id # ADMIN_CHAT_ID
    /\ \E j \in CallsAt("report") :
         /\ result.calls[j].ok
         /\ result.calls[j].chat_id = ADMIN_CHAT_ID
         /\ result.calls[j].text = ERROR_PREFIX \o PLATFORM_ERROR

\* C14: when the access token or the operator channel identifier is missing
\* (unset or empty) at startup, the process stops with a fatal error before
\* the relay loop starts: it never polls, no handler is registered and no
\* update is ever handled.
C14_MissingConfigIsFatal ==
    (\/ process.env.TELEGRAM_BOT_TOKEN \in {None, Some(<<>>)}
     \/ process.env.ADMIN_CHAT_ID \in {None, Some(<<>>)})
    => /\ process.phase \in {"import", "failed"}
       /\ process.handlers = {}
       /\ update = None
       /\ result.calls = <<>>

\* C14 witness: the token is set, the operator channel is not, and loading
\* the module has failed
C14_Witness ==
    /\ process.env.TELEGRAM_BOT_TOKEN = Some(BOT_TOKEN)
    /\ process.env.ADMIN_CHAT_ID = None
    /\ process.phase = "failed"
    /\ process.handlers = {}

\* C12 as claimed: from a text that holds a canonical tag #ID<a> and the
\* phrase "Message sent to user #ID<b>", b # a, in either order, the user id
\* extracted is a.
C12_CanonicalWins ==
    (update # None /\ result.handler = "extract" /\ Val(update).kind = "both")
    => result.ids.user_id = Some(Val(update).a)

\* C12 as amended: the user id extracted is the one of the leftmost
\* #ID<digits>: a when the canonical tag comes before the phrase, b when the
\* phrase comes first, since the phrase holds a match of the canonical
\* pattern itself.
C12_LeftmostIdWins ==
    (update # None /\ result.handler = "extract" /\ Val(update).kind = "both")
    => result.ids.user_id
         = Some(IF Val(update).first = "tag" THEN Val(update).a ELSE Val(update).b)

\* C12 witness: the tag of user 12 came before the phrase of user 7, and 12
\* was extracted
C12_Witness ==
    /\ update # None
    /\ result.handler = "extract"
    /\ Val(update).kind = "both"
    /\ Val(update).first = "tag"
    /\ Val(update).a = 12
    /\ Val(update).b = 7
    /\ result.ids.user_id = Some(12)

\* C13: decoding the tag made for operator message id N gives N, for every
\* N from 0 up; decoding a text that holds no tag gives nothing.
C13_TagRoundTrip ==
    /\ (update # None /\ result.handler = "codec")
         => result.decoded = Some(Val(update).n)
    /\ (update # None /\ result.handler = "extract" /\ Val(update).kind = "untagged")
         => result.decoded = None

\* C13 witness: the tag of a three-digit id was decoded to that id
C13_Witness ==
    /\ update # None
    /\ result.handler = "codec"
    /\ Val(update).n = 105
    /\ result.encoded = <<"\n", "\n", "#", "a", "d", "m", "s", "g", "1", "0", "5">>
    /\ result.decoded = Some(105)

\* the calls that dispatch the relayed content to its destination
Dispatches ==
    CallsAt("forward") \cup CallsAt("relay")

\* C15: in every dispatch of handle_admin_message to an end-user chat the
\* reply reference is absent or the id of a message that this end-user
\* sent; the id of an operator-channel message is never used, also when the
\* operator replies to a confirmation of the bot.
C15_ReplyTargetIsUsersMessage ==
    (Handled /\ result.handler = "admin")
    => \A i \in CallsAt("relay") :
         \/ result.calls[i].reply_to_message_id = None
         \/ /\ Val(target).site = "forward"
            /\ Val(target).peer = result.calls[i].chat_id
            /\ result.calls[i].reply_to_message_id = Some(Val(target).mid)

\* C16: the report "Error sending message to user" goes to the operator
\* channel only if the operator's content was not delivered to the end-user;
\* a delivered relay is never reported as failed, also when the confirmation
\* that follows it fails.
C16_ReportOnlyIfUndelivered ==
    (Handled /\ result.handler = "admin")
    => ((\E j \in DOMAIN result.calls : IsPrefix(ERROR_PREFIX, result.calls[j].text))
         => \A i \in CallsAt("relay") : ~result.calls[i].ok)

\* C17: on the user path the fixed confirmation text is sent to the sender
\* only after the dispatch to the operator channel was accepted; when that
\* dispatch fails nothing more is sent and the failure is only logged.
C17_ConfirmAfterForward ==
    (Handled /\ result.handler = "user")
    => /\ \A j \in DOMAIN result.calls :
            result.calls[j].text = CONFIRMATION_MESSAGE =>
              \E i \in 1..(j - 1) :
                /\ result.calls[i].chat_id = ADMIN_CHAT_ID
                /\ Contains(<<"#", "M", "S", "G">> \o Str(Msg.message_id) \o <<"\n">>,
                            result.calls[i].text)
                /\ result.calls[i].ok
       /\ (\E i \in DOMAIN result.calls :
              result.calls[i].chat_id = ADMIN_CHAT_ID /\ ~result.calls[i].ok)
          => /\ Len(result.calls) = 1
             /\ result.errors # <<>>
             /\ ~result.raised

\* C17 witness: the forward of a user's message was rejected; it is the only
\* call made and the failure is in the log
C17_Witness ==
    /\ Handled
    /\ result.handler = "user"
    /\ Len(result.calls) = 1
    /\ result.calls[1].chat_id = ADMIN_CHAT_ID
    /\ ~result.calls[1].ok
    /\ result.errors # <<>>

\* C18: handling one update makes at most one attempt to dispatch the
\* relayed content to its destination, accepted or not, and that attempt
\* carries the content of the update being handled, never of an earlier one.
C18_OneDispatchAttempt ==
    Handled
    => /\ Cardinality(Dispatches) <= 1
       /\ Cardinality({i \in DOMAIN result.calls :
                          result.calls[i].api \notin {"send_message", "send_chat_action"}})
            <= 1
       /\ \A i \in CallsAt("forward") :
            /\ result.handler = "user"
            /\ result.calls[i].chat_id = ADMIN_CHAT_ID
            /\ Contains(<<"#", "M", "S", "G">> \o Str(Msg.message_id) \o <<"\n">>,
                        result.calls[i].text)
       /\ \A i \in CallsAt("relay") :
            /\ result.handler = "admin"
            /\ IsPrefix(OrStr(Msg.text, Msg.caption), result.calls[i].text)

\* C18 witness: the relay of an operator's photo was rejected; it was tried
\* once and the error report followed
C18_Witness ==
    /\ Handled
    /\ result.handler = "admin"
    /\ Cardinality(CallsAt("relay")) = 1
    /\ \E i \in CallsAt("relay") :
         ~result.calls[i].ok /\ result.calls[i].api = "send_photo"
    /\ CallsAt("report") # {}

\* the call sites at which a coroutine's calls have failed so far
FailedSites(t) ==
    {t.calls[i].site : i \in {j \in DOMAIN t.calls : ~t.calls[j].ok}}

\* what message_router does with a coroutine's update when it is handled
\* alone, from start to end, with the same calls failing
Alone(t) ==
    message_router(Val(t.update), FailedSites(t))

\* C11: handlers keep no state between events.  However the coroutines are
\* interleaved and whenever the process was restarted, the calls a handler
\* has made for its update are the calls message_router makes for that
\* update handled alone: a prefix of them while it is in flight, all of
\* them once it has returned.  In particular an operator reply handled
\* after a restart goes to the user and reply-target written in the text it
\* replies to.
C11_SameCallsAsAlone ==
    \A k \in DOMAIN tasks :
      tasks[k].pc # "idle"
      => /\ IsPrefix(tasks[k].calls, Alone(tasks[k]).calls)
         /\ tasks[k].pc = "done" => tasks[k].calls = Alone(tasks[k]).calls

\* an operator reply to a copy forwarded before a restart has been relayed
\* to the user and confirmed while another coroutine made calls in between
C11_Witness ==
    \E k \in DOMAIN tasks :
      /\ tasks[k].pc = "done"
      /\ tasks[k].old_target
      /\ tasks[k].overlapped
      /\ Len(tasks[k].calls) = 3
      /\ tasks[k].calls[2].site = "relay"
      /\ tasks[k].calls[2].ok
      /\ tasks[k].calls[2].chat_id \in {Str(7), Str(12)}
      /\ tasks[k].calls[2].reply_to_message_id \in {Some(MinMsgId), Some(MaxMsgId)}
      /\ tasks[k].calls[3].site = "confirm"

====
